---- MODULE Spec2Model ----
(***************************************************************************)
(* Job tracking, deduplication and history of the YouTube MP3 downloader   *)
(* (src/app.py).  The state is the module-level state of app.py            *)
(* (download_progress, download_history, the history file, the download    *)
(* folder) plus one record per DownloadThread; the actions are the request *)
(* handlers and the steps of DownloadThread.run between which other        *)
(* threads can be scheduled.                                               *)
(*                                                                         *)
(* Not tracked: the title, timestamp and file_size fields of a history     *)
(* entry and the size and time strings of a listing record.                *)
(*                                                                         *)
(* Spec is the application: submissions, job threads, polls and deletes.   *)
(* SpecStore is the history store on any history file, SpecListing the     *)
(* listing of a file with any duration, SpecFiles the handlers that read   *)
(* or delete the files of any folder, SpecRate the rate limiter of         *)
(* download_audio, SpecInfo the /info handler on any folder and history,   *)
(* SpecDownload one job on any folder, FairSpec the application with its   *)
(* job threads scheduled fairly.                                           *)
(***************************************************************************)
EXTENDS Integers, Sequences, FiniteSets, TLC

\* ---------------------------------------------------------------- bounds

\* Number of DownloadThreads ever started.
MaxJobs == 2

\* Number of tokens of a history file found at startup.
MaxText == 3

\* Number of entries appended to the history after startup.
MaxHistory == 2

\* Largest duration, in seconds, of an entry of the history at startup.
MaxSeconds == 7300

\* Number of calls of the rate-limited function.
MaxCalls == 7

\* Last reading of the clock, in seconds.
MaxClock == 93

\* ------------------------------------------------------------ input sets

\* Milliseconds between the clock readings of two consecutive submissions.
Elapsed == {0, 1}

\* The job ids a client can ask for: the clock readings of MaxJobs submissions.
JobIds == 0..(MaxJobs - 1)

\* Python's None, where a filename or an error string is expected.
None == "None"

\* The url of a request body: two video URLs, or a missing/empty one.
NoUrl == ""

Urls == {"A", "B"}

\* What extract_info returns for a URL: info['title'] and info['duration'].
TitleOf(u) == IF u = "A" THEN "a" ELSE "b"

DurationOf(u) == IF u = "A" THEN 65 ELSE 3725

\* The .mp3 files the jobs write, named after the titles.
Mp3Files == {"a.mp3", "b.mp3"}

\* The .mp3 names the download folder can hold: those of the jobs and that
\* of a file somebody else put there.
Mp3Names == Mp3Files \cup {"c.mp3"}

\* Client-supplied <filename> of a route, as its path components.
ClientPaths == {<<"a.mp3">>, <<"..", "b.mp3">>, <<"..">>}

\* app.config['DOWNLOAD_FOLDER']
DOWNLOAD_FOLDER == "downloads"

\* str(e) of an exception raised by yt-dlp inside download_audio.
ExcMessages == {"ERROR: Video unavailable"}

AlreadyMsg == "This video has already been downloaded!"

NoMp3Msg == "No MP3 files were created"

\* The dict a progress hook receives: status and, possibly, _percent_str.
HookEvents ==
    { [status |-> "downloading", percent |-> " 50.0%"],
      [status |-> "downloading", percent |-> "N/A"],
      [status |-> "downloading", percent |-> None],
      [status |-> "finished", percent |-> None] }

VARIABLES
    now,                \* time.time() * 1000 read by the last submission,
                        \* counted from the reading of the first one
    disk,               \* the .mp3 files of DOWNLOAD_FOLDER, oldest first
    download_history,   \* the module-level list download_history
    histfile,           \* the text of HISTORY_FILE
    download_progress,  \* the module-level dict download_progress
    threads,            \* the DownloadThreads started so far
    deleting,           \* the delete request in flight
    clock,              \* time.time(), in seconds
    calls,              \* the list calls of download_audio's rate_limit
    callers,            \* the threads calling the rate-limited download_audio
    begun,              \* the times at which its wrapped body began
    info_calls          \* the list calls of get_video_info's rate_limit

\* The state of the application and that of the rate limiter.
app == <<now, disk, download_history, histfile, download_progress, threads,
         deleting>>

limiter == <<clock, calls, callers, begun, info_calls>>

vars == <<now, disk, download_history, histfile, download_progress, threads,
          deleting, clock, calls, callers, begun, info_calls>>

\* ---------------------------------------------------------- rate limiter

\* @rate_limit(max_per_minute=3) on YouTubeDownloader.download_audio
max_per_minute == 3

\* The threads that call download_audio; the decorator is applied once, to
\* the method of the class, so all of them share the list calls.
Callers == {1, 2}

\* Seconds the clock advances by between two steps.
Ticks == {31}

\* random.uniform(2, 5)
Jitter == {2, 5}

NotCalling == [pc |-> "idle", now |-> 0, wake |-> 0]

InitLimiter ==
    /\ clock = 0
    /\ calls = <<>>
    /\ callers = [c \in Callers |-> NotCalling]
    /\ begun = <<>>
    /\ info_calls = <<>>

\* --------------------------------------------------------------- helpers

Idle == [pc |-> "idle", filename |-> None, kept |-> <<>>]

NoResult == [success |-> FALSE, error |-> None]

\* d[k] = v on a dict.
Put(d, k, v) == [x \in DOMAIN d \cup {k} |-> IF x = k THEN v ELSE d[x]]

\* The folder after a file is (re)written: it becomes the newest.
WriteFile(files, f) == Append(SelectSeq(files, LAMBDA g : g # f), f)

RemoveFile(files, f) == SelectSeq(files, LAMBDA g : g # f)

OnDisk(f) == \E i \in DOMAIN disk : disk[i] = f

Reverse(s) == [i \in 1..Len(s) |-> s[Len(s) + 1 - i]]

\* os.path.basename of a client-supplied path: its last component, which is
\* '..' for a path that ends in '..'.
basename(path) == path[Len(path)]

\* os.path.join(app.config['DOWNLOAD_FOLDER'], filename)
filepath(filename) == <<DOWNLOAD_FOLDER, filename>>

\* os.path.isdir(path): the folder's '..' is its parent directory.
isdir(path) == path[1] = DOWNLOAD_FOLDER /\ path[2] = ".."

\* os.path.exists(path)
exists(path) == isdir(path) \/ (path[1] = DOWNLOAD_FOLDER /\ OnDisk(path[2]))

\* The filter left out: every name of the folder passes.
endswith_any(f) == TRUE

\* filename.endswith('.mp3')
endswith_mp3(f) == f \in Mp3Names

\* sanitize_filename(f"{original_title}.mp3") for the title of u.
expected_filename(u) == IF TitleOf(u) = "a" THEN "a.mp3" ELSE "b.mp3"

\* float(percent_str.strip().replace('%', '')): the value, or -1 for ValueError.
ParsePercent(s) == IF s = " 50.0%" THEN 50 ELSE -1

\* ------------------------------------------------------------- formatters

\* f"{n:02d}": decimal, zero-padded to two digits.
fmt_02d(n) == IF n < 10 THEN "0" \o ToString(n) ELSE ToString(n)

\* format_duration taking the minutes of the whole duration, not those left
\* after the hours.
format_duration_total_minutes(seconds) ==
    IF seconds = 0 THEN "00:00"
    ELSE LET hours   == seconds \div 3600
             minutes == seconds \div 60
             secs    == seconds % 60
         IN  IF hours > 0
             THEN fmt_02d(hours) \o ":" \o fmt_02d(minutes) \o ":" \o fmt_02d(secs)
             ELSE fmt_02d(minutes) \o ":" \o fmt_02d(secs)

\* format_duration(seconds), for a number of seconds.
format_duration(seconds) ==
    IF seconds = 0 THEN "00:00"
    ELSE LET hours   == seconds \div 3600
             minutes == (seconds % 3600) \div 60
             secs    == seconds % 60
         IN  IF hours > 0
             THEN fmt_02d(hours) \o ":" \o fmt_02d(minutes) \o ":" \o fmt_02d(secs)
             ELSE fmt_02d(minutes) \o ":" \o fmt_02d(secs)

\* ---------------------------------------------------------- history store
\* HISTORY_FILE holds a text: a sequence of tokens, the brackets of the JSON
\* list and one object per entry (the separators and the indentation are not
\* tracked).  The empty text stands for a file that is missing or empty.

LBracket == [tok |-> "["]

RBracket == [tok |-> "]"]

\* A string with a lone surrogate code point: the result of parsing the JSON
\* escape \ud83d; UTF-8 can not encode it.
Surrogate == "\\ud83d.mp3"

\* The JSON object of entry e; esc says whether the non-ASCII characters of
\* its strings are written as \uXXXX escapes or as themselves.
Object(e, esc) == [tok |-> "{}", esc |-> esc, entry |-> e]

\* The object's bytes are UTF-8 and json can parse it.
Decodable(o) ==
    /\ o.tok = "{}"
    /\ o.esc \/ Surrogate \notin {o.entry.filename, o.entry.url}

\* f.write can encode the strings of entry e as UTF-8.
Encodable(e) == Surrogate \notin {e.filename, e.url}

\* Index of the first entry of history that can not be written, or
\* Len(history) + 1.
FirstUnencodable(history) ==
    LET bad == {i \in DOMAIN history : ~Encodable(history[i])}
    IN  IF bad = {} THEN Len(history) + 1
        ELSE CHOOSE i \in bad : \A j \in bad : i <= j

\* The Python dict that json.load makes of a JSON object that is not inside
\* a list.  Lists are sequences, functions on 1..n; the dict is kept apart
\* from them as the function that has the object's fields at 0.
Dict(e) == [k \in {0} |-> e]

\* isinstance(v, list)
IsList(v) == DOMAIN v = 1..Cardinality(DOMAIN v)

\* save_download_history(history): the text HISTORY_FILE holds afterwards.
\* open(.., 'w') truncates the file and json.dump(ensure_ascii=False) writes
\* chunk by chunk; a string that UTF-8 can not encode raises in f.write, the
\* except clause swallows it and the file keeps the chunks written so far.
\* json.dump writes a dict as one object.
save_download_history(history) ==
    IF IsList(history)
    THEN LET n == FirstUnencodable(history)
         IN  IF n > Len(history)
             THEN <<LBracket>>
                    \o [i \in DOMAIN history |-> Object(history[i], FALSE)]
                    \o <<RBracket>>
             ELSE <<LBracket>>
                    \o [i \in 1..(n - 1) |-> Object(history[i], FALSE)]
    ELSE IF Encodable(history[0]) THEN <<Object(history[0], FALSE)>>
    ELSE <<>>

\* json.load accepts the text: a list of objects.
WellFormed(text) ==
    /\ Len(text) >= 2
    /\ text[1] = LBracket
    /\ text[Len(text)] = RBracket
    /\ \A i \in 2..(Len(text) - 1) : Decodable(text[i])

\* json.load accepts the text: one object, not inside a list.
IsObject(text) == Len(text) = 1 /\ Decodable(text[1])

\* load_download_history(): what json.load parses from the file, a list for
\* a list of objects and a dict for one object, or [] when the file is
\* missing or json.load raises.
load_download_history(text) ==
    IF WellFormed(text)
    THEN [i \in 1..(Len(text) - 2) |-> text[i + 1].entry]
    ELSE IF IsObject(text) THEN Dict(text[1].entry)
    ELSE <<>>

\* -------------------------------------------------------- directory scanner

\* history_entry = None: no entry of the history matches the file.
NoEntry == [filename |-> None, url |-> None, duration |-> 0]

\* history_entry without the break: the last matching entry wins.
history_entry_last(f) ==
    LET idx == {i \in DOMAIN download_history : download_history[i].filename = f}
    IN  IF idx = {} THEN NoEntry
        ELSE download_history[CHOOSE i \in idx : \A j \in idx : i >= j]

\* The loop over download_history in list_downloads_internal: the first entry
\* whose filename matches, or None.
history_entry(f) ==
    LET idx == {i \in DOMAIN download_history : download_history[i].filename = f}
    IN  IF idx = {} THEN NoEntry
        ELSE download_history[CHOOSE i \in idx : \A j \in idx : i <= j]

\* download_info formatting the default duration instead of answering
\* 'Unknown' when no entry matches.
download_info_formatted(f) ==
    LET e == history_entry(f)
    IN  [filename   |-> f,
         source_url |-> IF e = NoEntry THEN "" ELSE e.url,
         duration   |-> IF e = NoEntry THEN 0 ELSE e.duration,
         duration_formatted |->
            format_duration(IF e = NoEntry THEN 0 ELSE e.duration)]

\* The download_info dict of a file: the history-derived fields, defaulted
\* when no entry matches.
download_info(f) ==
    LET e == history_entry(f)
    IN  [filename   |-> f,
         source_url |-> IF e = NoEntry THEN "" ELSE e.url,
         duration   |-> IF e = NoEntry THEN 0 ELSE e.duration,
         duration_formatted |->
            IF e = NoEntry THEN "Unknown" ELSE format_duration(e.duration)]

\* list_downloads_internal reading the history instead of the folder: one
\* record per entry.
list_downloads_from_history ==
    [i \in DOMAIN download_history |->
        [filename   |-> download_history[i].filename,
         source_url |-> download_history[i].url,
         duration   |-> download_history[i].duration,
         duration_formatted |-> format_duration(download_history[i].duration)]]

\* One record per .mp3 file of the folder, sorted newest first.
list_downloads_internal ==
    LET files == Reverse(SelectSeq(disk, endswith_mp3))
    IN  [i \in 1..Len(files) |-> download_info(files[i])]

\* ------------------------------------------------------------------- Init

\* The process starts on an empty folder and a history file that holds the
\* empty list.
Init ==
    /\ now = 0
    /\ disk = <<>>
    /\ histfile = save_download_history(<<>>)
    /\ download_history = load_download_history(histfile)
    /\ download_progress = <<>>
    /\ threads = <<>>
    /\ deleting = Idle
    /\ InitLimiter

\* ------------------------------------------------------- request handlers
\* A handler's response is a function of the state it reads and of its
\* input; the handler's action applies its effect on the state.

\* The first record of the listing whose source_url is u, or 0.
existing_download(u) ==
    LET existing_downloads == list_downloads_internal
        hits == {i \in DOMAIN existing_downloads :
                    existing_downloads[i].source_url = u}
    IN  IF hits = {} THEN 0 ELSE CHOOSE i \in hits : \A j \in hits : i <= j

\* download_audio_response without the test of the url: a request without
\* one goes on to the duplicate check and the start of a job.
download_audio_response_any_url(u, ms) ==
    LET hit == existing_download(u)
    IN  IF hit # 0
        THEN [success |-> FALSE, error |-> AlreadyMsg,
              existing_file |-> list_downloads_internal[hit].filename]
        ELSE [success |-> TRUE, download_id |-> now + ms]

\* The JSON body POST /download answers {url: u} with, when time.time() reads
\* ms milliseconds more than it did for the previous submission.
download_audio_response(u, ms) ==
    LET hit == existing_download(u)
    IN  IF u = NoUrl
        THEN [success |-> FALSE, error |-> "No URL provided"]
        ELSE IF hit # 0
        THEN [success |-> FALSE, error |-> AlreadyMsg,
              existing_file |-> list_downloads_internal[hit].filename]
        ELSE [success |-> TRUE, download_id |-> now + ms]

\* POST /download: a rejected request changes nothing; an accepted one
\* stamps the id and starts the DownloadThread.
download_audio(u, ms) ==
    LET r == download_audio_response(u, ms)
    IN  IF r.success
        THEN /\ Len(threads) < MaxJobs
             /\ threads = <<>> => ms = 0
             /\ now' = now + ms
             /\ threads' = Append(threads,
                    [url |-> u, download_id |-> r.download_id,
                     pc |-> "created", result |-> NoResult])
             /\ UNCHANGED <<limiter, disk, download_history, histfile,
                            download_progress, deleting>>
        ELSE UNCHANGED vars

Unknown == [status |-> "unknown", progress |-> 0, filename |-> None,
            error |-> None]

\* The JSON body of GET /progress/<download_id>.
get_progress_response(id) ==
    IF id \in DOMAIN download_progress THEN download_progress[id] ELSE Unknown

\* get_progress with download_progress.setdefault in place of .get: the
\* default record is stored under the id.
get_progress_setdefault(id) ==
    /\ download_progress' =
            IF id \in DOMAIN download_progress THEN download_progress
            ELSE Put(download_progress, id, Unknown)
    /\ UNCHANGED <<limiter, now, disk, download_history, histfile, threads, deleting>>

\* GET /progress/<download_id> reads the registry and changes nothing.
get_progress(id) ==
    /\ get_progress_response(id).status \in
            {"unknown", "downloading", "completed", "error"}
    /\ UNCHANGED vars

IsADirectory == "[Errno 21] Is a directory"

\* GET /downloads computes the listing and changes nothing.
list_downloads ==
    /\ Len(list_downloads_internal) <= Len(disk)
    /\ UNCHANGED vars

\* The JSON body of DELETE /delete/<filename>; os.remove raises on a
\* directory and the except clause answers with the message.
delete_file_response(path) ==
    LET file == filepath(basename(path))
    IN  IF exists(file)
        THEN IF isdir(file)
             THEN [success |-> FALSE, error |-> IsADirectory]
             ELSE [success |-> TRUE, message |-> "File deleted"]
        ELSE [success |-> FALSE, error |-> "File not found"]

\* What GET /download-file/<filename> answers: the file send_file serves, or
\* the JSON body of a failure.
download_file_response(path) ==
    LET file == filepath(basename(path))
    IN  IF ~exists(file)
        THEN [success |-> FALSE, error |-> "File not found"]
        ELSE IF isdir(file)
        THEN [success |-> FALSE, error |-> IsADirectory]
        ELSE [success |-> TRUE, send_file |-> file]

\* GET /download-file/<filename> changes nothing.
download_file(path) ==
    /\ download_file_response(path).success \in BOOLEAN
    /\ UNCHANGED vars

\* What GET /play-audio/<filename> answers.
play_audio_response(path) ==
    LET file == filepath(basename(path))
    IN  IF ~exists(file)
        THEN [success |-> FALSE, error |-> "Audio file not found"]
        ELSE IF isdir(file)
        THEN [success |-> FALSE, error |-> IsADirectory]
        ELSE [success |-> TRUE, send_file |-> file]

\* GET /play-audio/<filename> changes nothing.
play_audio(path) ==
    /\ play_audio_response(path).success \in BOOLEAN
    /\ UNCHANGED vars

\* delete_file with the history clean-up moved out of the if: the entries
\* are filtered whether or not the file was in the folder.
delete_file_unguarded(path) ==
    LET filename == basename(path)
    IN  /\ deleting.pc = "idle"
        /\ disk' = RemoveFile(disk, filename)
        /\ deleting' = [pc |-> "rebind", filename |-> filename,
                        kept |-> SelectSeq(download_history,
                                    LAMBDA e : e.filename # filename)]
        /\ UNCHANGED <<limiter, now, download_history, histfile, download_progress,
                       threads>>

\* DELETE /delete/<filename>, up to the list comprehension over
\* download_history: the file is removed and the entries to keep are read.
\* A request for a file that is not in the folder changes nothing.  One
\* delete request is handled at a time.
delete_file(path) ==
    LET filename == basename(path)
    IN  /\ deleting.pc = "idle"
        /\ IF delete_file_response(path).success
           THEN /\ disk' = RemoveFile(disk, filename)
                /\ deleting' = [pc |-> "rebind", filename |-> filename,
                                kept |-> SelectSeq(download_history,
                                            LAMBDA e : e.filename # filename)]
                /\ UNCHANGED <<limiter, now, download_history, histfile,
                               download_progress, threads>>
           ELSE UNCHANGED vars

\* delete_file without its global statement: the filtered list is a local,
\* it is saved, and the module-level list keeps its entries.
delete_file_finish_local ==
    /\ deleting.pc = "rebind"
    /\ histfile' = save_download_history(deleting.kept)
    /\ deleting' = Idle
    /\ UNCHANGED <<limiter, now, disk, download_history, download_progress, threads>>

\* The rest of delete_file: the global is rebound to the filtered list and
\* the list is saved; the response is sent.
delete_file_finish ==
    /\ deleting.pc = "rebind"
    /\ download_history' = deleting.kept
    /\ histfile' = save_download_history(deleting.kept)
    /\ deleting' = Idle
    /\ UNCHANGED <<limiter, now, disk, download_progress, threads>>

\* ---------------------------------------------------------- DownloadThread

SetThread(t, pc, result) ==
    threads' = [threads EXCEPT ![t].pc = pc, ![t].result = result]

\* run, first statement: the registry record of the job is created.
run_start(t) ==
    /\ threads[t].pc = "created"
    /\ download_progress' = Put(download_progress, threads[t].download_id,
            [status |-> "downloading", progress |-> 0, filename |-> None,
             error |-> None])
    /\ SetThread(t, "downloading", NoResult)
    /\ UNCHANGED <<limiter, now, disk, download_history, histfile, deleting>>

\* progress_hook(d), called by yt-dlp while ydl.download runs.
progress_hook(t, d) ==
    LET id == threads[t].download_id
        progress == ParsePercent(d.percent)
    IN  /\ threads[t].pc = "downloading"
        /\ IF d.status = "downloading"
           THEN IF d.percent # None /\ progress # -1
                THEN download_progress' =
                        [download_progress EXCEPT ![id].progress = progress]
                ELSE UNCHANGED download_progress
           ELSE IF d.status = "finished"
           THEN download_progress' =
                    [download_progress EXCEPT ![id].progress = 100]
           ELSE UNCHANGED download_progress
        /\ UNCHANGED <<limiter, now, disk, download_history, histfile, threads,
                       deleting>>

\* YouTubeDownloader.download_audio up to the end of the with block:
\* extract_info and ydl.download write the expected file, write nothing, or
\* raise (the except clause then returns the failure).
ydl_download(t, outcome, msg) ==
    /\ threads[t].pc = "downloading"
    /\ IF outcome = "raise"
       THEN /\ SetThread(t, "downloaded", [success |-> FALSE, error |-> msg])
            /\ UNCHANGED disk
       ELSE /\ SetThread(t, "downloaded", NoResult)
            /\ disk' = IF outcome = "wrote"
                       THEN WriteFile(disk, expected_filename(threads[t].url))
                       ELSE disk
    /\ UNCHANGED <<limiter, now, download_history, histfile, download_progress,
                   deleting>>

Success(f, u) ==
    [success |-> TRUE, filename |-> f, title |-> TitleOf(u),
     duration |-> DurationOf(u)]

\* download_audio_result with min in place of max: the fallback is the .mp3
\* created first.
download_audio_result_oldest(u) ==
    LET mp3_files == SelectSeq(disk, endswith_mp3)
    IN  IF OnDisk(expected_filename(u))
        THEN Success(expected_filename(u), u)
        ELSE IF Len(mp3_files) > 0
        THEN Success(mp3_files[1], u)
        ELSE [success |-> FALSE, error |-> NoMp3Msg]

\* YouTubeDownloader.download_audio after the download: the expected file,
\* else the most recently created .mp3, else the failure.
download_audio_result(u) ==
    LET mp3_files == SelectSeq(disk, endswith_mp3)
    IN  IF OnDisk(expected_filename(u))
        THEN Success(expected_filename(u), u)
        ELSE IF Len(mp3_files) > 0
        THEN Success(mp3_files[Len(mp3_files)], u)
        ELSE [success |-> FALSE, error |-> NoMp3Msg]

\* What download_audio returns to run: the failure of the except clause, or
\* the result computed from the folder.
result_of(t) ==
    IF threads[t].result # NoResult THEN threads[t].result
    ELSE download_audio_result(threads[t].url)

Completed(result) ==
    [status |-> "completed", progress |-> 100, filename |-> result.filename,
     title |-> result.title, duration |-> result.duration, error |-> None]

\* The error record without its message.
Failed_no_message(result) ==
    [status |-> "error", progress |-> 0, filename |-> None, error |-> None]

Failed(result) ==
    [status |-> "error", progress |-> 0, filename |-> None,
     error |-> result.error]

\* download_audio returns success and run takes the if branch: the registry
\* record becomes completed.
run_success(t) ==
    LET result == result_of(t)
    IN  /\ threads[t].pc = "downloaded"
        /\ result.success
        /\ download_progress' = Put(download_progress, threads[t].download_id,
                                    Completed(result))
        /\ SetThread(t, "completed", result)
        /\ UNCHANGED <<limiter, now, disk, download_history, histfile, deleting>>

\* run's else branch dropping the job's record instead of marking it error.
run_failure_evict(t) ==
    /\ threads[t].pc = "downloaded"
    /\ ~result_of(t).success
    /\ download_progress' =
            [x \in DOMAIN download_progress \ {threads[t].download_id} |->
                download_progress[x]]
    /\ SetThread(t, "failed", NoResult)
    /\ UNCHANGED <<limiter, now, disk, download_history, histfile, deleting>>

\* download_audio returns failure and run takes the else branch: the
\* registry record becomes error; the thread ends.
run_failure(t) ==
    LET result == result_of(t)
    IN  /\ threads[t].pc = "downloaded"
        /\ ~result.success
        /\ download_progress' = Put(download_progress, threads[t].download_id,
                                    Failed(result))
        /\ SetThread(t, "failed", NoResult)
        /\ UNCHANGED <<limiter, now, disk, download_history, histfile, deleting>>

download_entry(t) ==
    [filename |-> threads[t].result.filename, url |-> threads[t].url,
     duration |-> threads[t].result.duration]

\* run: download_history.append(download_entry).
run_append(t) ==
    /\ threads[t].pc = "completed"
    /\ download_history' = Append(download_history, download_entry(t))
    /\ SetThread(t, "appended", threads[t].result)
    /\ UNCHANGED <<limiter, now, disk, histfile, download_progress, deleting>>

\* run: save_download_history(download_history); the thread ends.
run_save(t) ==
    /\ threads[t].pc = "appended"
    /\ histfile' = save_download_history(download_history)
    /\ SetThread(t, "done", NoResult)
    /\ UNCHANGED <<limiter, now, disk, download_history, download_progress, deleting>>

\* ------------------------------------------------------------------- Next

Next ==
    \/ \E u \in Urls \cup {NoUrl} : \E ms \in Elapsed : download_audio(u, ms)
    \/ \E id \in JobIds : get_progress(id)
    \/ \E path \in ClientPaths : delete_file(path)
    \/ delete_file_finish
    \/ \E t \in DOMAIN threads : run_start(t)
    \/ \E t \in DOMAIN threads : \E d \in HookEvents : progress_hook(t, d)
    \/ \E t \in DOMAIN threads : \E msg \in ExcMessages :
            \E outcome \in {"wrote", "nothing", "raise"} :
                ydl_download(t, outcome, msg)
    \/ \E t \in DOMAIN threads : run_success(t)
    \/ \E t \in DOMAIN threads : run_append(t)
    \/ \E t \in DOMAIN threads : run_save(t)
    \/ \E t \in DOMAIN threads : run_failure(t)

Spec == Init /\ [][Next]_vars

\* A step of the run of DownloadThread t other than the call of the
\* downloader, which may never return.
run_step(t) ==
    /\ t \in DOMAIN threads
    /\ \/ run_start(t)
       \/ run_success(t)
       \/ run_failure(t)
       \/ run_append(t)
       \/ run_save(t)

\* The application with threads that are scheduled fairly: a started thread
\* that can take a step of run eventually takes it.
FairSpec == Spec /\ \A t \in 1..MaxJobs : WF_vars(run_step(t))

\* ------------------------------------------------- the history store alone
\* Startup on any history file, followed by appends and saves of entries with
\* any strings: the store's load and save applied to bounded inputs.

\* The entries a job can append: url and duration of a video, filename from
\* its title.
StoreEntries ==
    { [filename |-> f, url |-> "A", duration |-> DurationOf("A")] :
        f \in {"a.mp3", Surrogate} }

FileTokens ==
    {LBracket, RBracket}
        \cup {Object(e, esc) : e \in StoreEntries, esc \in BOOLEAN}

\* The texts HISTORY_FILE can hold when the process starts.
FileTexts == UNION {[1..n -> FileTokens] : n \in 0..MaxText}

InitStore ==
    /\ now = 0
    /\ disk = <<>>
    /\ histfile \in FileTexts
    /\ download_history = <<>>
    /\ download_progress = <<>>
    /\ threads = <<>>
    /\ deleting = Idle
    /\ InitLimiter

\* download_history = load_download_history(), at import.
startup ==
    /\ download_history' = load_download_history(histfile)
    /\ UNCHANGED <<limiter, now, disk, histfile, download_progress, threads, deleting>>

\* download_history.append(download_entry); a dict has no append, the call
\* raises AttributeError and run's except clause catches it.
history_append(e) ==
    /\ IF IsList(download_history)
       THEN /\ Len(download_history) < MaxHistory
            /\ download_history' = Append(download_history, e)
       ELSE UNCHANGED download_history
    /\ UNCHANGED <<limiter, now, disk, histfile, download_progress, threads, deleting>>

\* save_download_history(download_history)
history_save ==
    /\ histfile' = save_download_history(download_history)
    /\ UNCHANGED <<limiter, now, disk, download_history, download_progress, threads,
                   deleting>>

NextStore ==
    \/ startup
    \/ \E e \in StoreEntries : history_append(e)
    \/ history_save

SpecStore == InitStore /\ [][NextStore]_vars

\* ------------------------------------------------------ the listing alone
\* Startup with one file in the folder and a history that names it with any
\* duration; the listing is then asked for.

InitListing ==
    /\ now = 0
    /\ disk = <<"a.mp3">>
    /\ \E seconds \in 0..MaxSeconds :
            download_history =
                <<[filename |-> "a.mp3", url |-> "A", duration |-> seconds]>>
    /\ histfile = save_download_history(download_history)
    /\ download_progress = <<>>
    /\ threads = <<>>
    /\ deleting = Idle
    /\ InitLimiter

NextListing == list_downloads

SpecListing == InitListing /\ [][NextListing]_vars

\* ------------------------------------------------ the file handlers alone
\* Startup with any files in the folder and any history of their downloads;
\* clients then ask for the listing and for files to be served or deleted.

\* The names os.listdir can find in the folder: the .mp3 files and a file
\* that yt-dlp left unconverted.
FolderFiles == Mp3Names \cup {"a.webm"}

\* The folder: each file at most once, in any order of creation.
Folders ==
    {files \in UNION {[1..n -> FolderFiles] : n \in 0..Cardinality(FolderFiles)} :
        \A i, j \in DOMAIN files : files[i] = files[j] => i = j}

\* The entries of downloads of the urls: the file is the expected one or,
\* by the fallback of download_audio, another .mp3 of the folder.
Entries ==
    { [filename |-> f, url |-> u, duration |-> DurationOf(u)] :
        f \in Mp3Files, u \in Urls }

Histories == UNION {[1..n -> Entries] : n \in 0..MaxHistory}

InitFiles ==
    /\ now = 0
    /\ disk \in Folders
    /\ download_history \in Histories
    /\ histfile = save_download_history(download_history)
    /\ download_progress = <<>>
    /\ threads = <<>>
    /\ deleting = Idle
    /\ InitLimiter

NextFiles ==
    \/ list_downloads
    \/ \E path \in ClientPaths : download_file(path)
    \/ \E path \in ClientPaths : play_audio(path)
    \/ \E path \in ClientPaths : delete_file(path)
    \/ delete_file_finish

SpecFiles == InitFiles /\ [][NextFiles]_vars

\* ------------------------------------------------- the rate limiter alone
\* Threads call the rate-limited download_audio while time passes.

InitRate == Init

tick(d) ==
    /\ clock + d <= MaxClock
    /\ clock' = clock + d
    /\ UNCHANGED <<app, calls, callers, begun, info_calls>>

\* wrapper, from its first statement to time.sleep or, when the limit is not
\* reached, to the call of the wrapped function; r is random.uniform(2, 5).
wrapper(c, r) ==
    LET t == clock
        recent == SelectSeq(calls, LAMBDA call : t - call < 60)
        sleep_time == 60 - (t - recent[1]) + r
    IN  /\ callers[c].pc = "idle"
        /\ Len(begun) + Cardinality({x \in Callers : callers[x].pc = "sleeping"})
                < MaxCalls
        /\ IF Len(recent) >= max_per_minute
           THEN /\ calls' = recent
                /\ callers' = [callers EXCEPT ![c] =
                        [pc |-> "sleeping", now |-> t, wake |-> clock + sleep_time]]
                /\ UNCHANGED begun
           ELSE /\ calls' = Append(recent, t)
                /\ begun' = Append(begun, clock)
                /\ UNCHANGED callers
        /\ UNCHANGED <<app, clock, info_calls>>

\* wrapper, after time.sleep: calls.clear(), calls.append(now) with the time
\* read before the sleep, and the call of the wrapped function.
wrapper_wake(c) ==
    /\ callers[c].pc = "sleeping"
    /\ clock >= callers[c].wake
    /\ calls' = <<callers[c].now>>
    /\ begun' = Append(begun, clock)
    /\ callers' = [callers EXCEPT ![c] = NotCalling]
    /\ UNCHANGED <<app, clock, info_calls>>

NextRate ==
    \/ \E d \in Ticks : tick(d)
    \/ \E c \in Callers : \E r \in Jitter : wrapper(c, r)
    \/ \E c \in Callers : wrapper_wake(c)

SpecRate == InitRate /\ [][NextRate]_vars

\* --------------------------------------------------- the info handler alone
\* Startup with any files in the folder and any history of their downloads;
\* clients then ask for the metadata of videos while time passes.

\* @rate_limit(max_per_minute=6) on YouTubeDownloader.get_video_info
max_per_minute_info == 6

\* What ydl.extract_info(url, download=False) does: it returns the info dict
\* or raises.
InfoOutcomes == {"info", "raise"}

\* 'name': filename.replace('.mp3', '')
name_of(f) == IF f = "a.mp3" THEN "a" ELSE "b"

\* The JSON body POST /info answers {url: u} with.
get_video_info_response(u, outcome, msg) ==
    LET hit == existing_download(u)
    IN  IF u = NoUrl
        THEN [success |-> FALSE, error |-> "No URL provided"]
        ELSE IF hit # 0
        THEN [success |-> TRUE,
              title |-> name_of(list_downloads_internal[hit].filename),
              duration |-> list_downloads_internal[hit].duration_formatted,
              uploader |-> "Already Downloaded",
              already_downloaded |-> TRUE,
              existing_file |-> list_downloads_internal[hit].filename]
        ELSE IF outcome = "info"
        THEN [success |-> TRUE, title |-> TitleOf(u),
              duration |-> format_duration(DurationOf(u))]
        ELSE [success |-> FALSE, error |-> msg]

\* The wrapper of rate_limit around YouTubeDownloader.get_video_info, up to
\* the call of the wrapped function: the list calls afterwards.  A call over
\* the limit sleeps, clears the list and goes on; the sleep is inside this
\* request.
get_video_info_wrapper ==
    LET t == clock
        recent == SelectSeq(info_calls, LAMBDA call : t - call < 60)
    IN  IF Len(recent) >= max_per_minute_info THEN <<t>> ELSE Append(recent, t)

\* get_video_info without the look at the listing: every request with a url
\* goes to the downloader.
get_video_info_always_extracts(u, outcome, msg) ==
    IF u = NoUrl
    THEN UNCHANGED vars
    ELSE /\ info_calls' = get_video_info_wrapper
         /\ UNCHANGED <<app, clock, calls, callers, begun>>

\* POST /info: a request without a url and one for a url of the listing are
\* answered at once; any other goes through the rate limiter to
\* extract_info.
get_video_info(u, outcome, msg) ==
    IF u = NoUrl \/ existing_download(u) # 0
    THEN UNCHANGED vars
    ELSE /\ info_calls' = get_video_info_wrapper
         /\ UNCHANGED <<app, clock, calls, callers, begun>>

InitInfo == InitFiles

NextInfo ==
    \/ \E u \in Urls \cup {NoUrl} : \E outcome \in InfoOutcomes :
        \E msg \in ExcMessages : get_video_info(u, outcome, msg)
    \/ \E d \in Ticks : tick(d)

SpecInfo == InitInfo /\ [][NextInfo]_vars

\* ------------------------------------------------------- one job alone
\* A job for either url is started with any files in the folder and runs to
\* its end.

InitDownload ==
    /\ now = 0
    /\ disk \in Folders
    /\ download_history = <<>>
    /\ histfile = save_download_history(download_history)
    /\ download_progress = <<>>
    /\ \E u \in Urls :
            threads = <<[url |-> u, download_id |-> now, pc |-> "created",
                         result |-> NoResult]>>
    /\ deleting = Idle
    /\ InitLimiter

NextDownload ==
    \/ \E t \in DOMAIN threads : run_start(t)
    \/ \E t \in DOMAIN threads : \E d \in HookEvents : progress_hook(t, d)
    \/ \E t \in DOMAIN threads : \E msg \in ExcMessages :
        \E outcome \in {"wrote", "nothing", "raise"} :
            ydl_download(t, outcome, msg)
    \/ \E t \in DOMAIN threads : run_success(t)
    \/ \E t \in DOMAIN threads : run_append(t)
    \/ \E t \in DOMAIN threads : run_save(t)
    \/ \E t \in DOMAIN threads : run_failure(t)

SpecDownload == InitDownload /\ [][NextDownload]_vars

\* ----------------------------------------------------------------- claims

\* The entries of the list h whose filename is f.
EntriesFor(h, f) == {i \in DOMAIN h : h[i].filename = f}

\* The download of thread t succeeded: run took the if branch.
Succeeded(t) == threads[t].pc \in {"completed", "appended", "done"}

\* This step starts a DownloadThread for url u.
Started(u) ==
    /\ Len(threads') = Len(threads) + 1
    /\ threads'[Len(threads')].url = u

\* C1: for every job whose registry record is completed and whose file is
\* still in the folder, the history holds exactly one entry with the
\* filename the job reports.
C1_CompletedHasOneEntry ==
    \A id \in DOMAIN download_progress :
        LET r == download_progress[id]
        IN  (r.status = "completed" /\ OnDisk(r.filename))
                => Cardinality(EntriesFor(download_history, r.filename)) = 1

\* C5: the history holds at most one entry per filename.
C5_OneEntryPerFilename ==
    \A i, j \in DOMAIN download_history :
        download_history[i].filename = download_history[j].filename => i = j

\* C6: any two accepted submissions have distinct job ids.
C6_DistinctJobIds ==
    \A i, j \in DOMAIN threads :
        threads[i].download_id = threads[j].download_id => i = j

\* C7: once POST /download has answered with a job id, a progress poll for
\* that id does not answer unknown.
C7_PollNeverUnknown ==
    \A t \in DOMAIN threads :
        get_progress_response(threads[t].download_id).status # "unknown"

\* C3: when a poll of an accepted job whose download succeeded shows
\* completed, it shows progress 100 and a filename, and a listing taken then
\* has a record whose source_url is the submitted URL.
C3_CompletedThenListed ==
    \A t \in DOMAIN threads :
        LET r == get_progress_response(threads[t].download_id)
            listing == list_downloads_internal
        IN  (Succeeded(t) /\ r.status = "completed" /\ OnDisk(r.filename))
                => /\ r.progress = 100
                   /\ r.filename # None
                   /\ \E i \in DOMAIN listing :
                        listing[i].source_url = threads[t].url

\* C4: a registry record that is completed or error is never changed again.
C4_TerminalIsFinal ==
    [][\A id \in DOMAIN download_progress :
           download_progress[id].status \in {"completed", "error"}
               => download_progress'[id] = download_progress[id]]_vars

\* Some file of the folder has, as the first history entry with its
\* filename, an entry whose url is u.
ListedWith(f, u) ==
    /\ OnDisk(f)
    /\ endswith_mp3(f)
    /\ \E k \in EntriesFor(download_history, f) :
        /\ download_history[k].url = u
        /\ \A j \in EntriesFor(download_history, f) : k <= j

\* C2 as stated: once a job for url u has completed and appended its history
\* entry, no later POST /download with u starts a job.
C2_CompletedUrlRejected ==
    [][\A u \in Urls :
           (\E t \in DOMAIN threads :
                threads[t].url = u /\ threads[t].pc \in {"appended", "done"})
               => ~Started(u)]_vars

\* C2 amended: while some .mp3 file of the folder has a first matching history
\* entry with url u, POST /download with u answers the already-downloaded
\* error naming such a file and starts no thread; a registry record is only
\* ever created by the first step of a started thread.
C2_ListedUrlRejected ==
    /\ [](\A u \in Urls :
            (\E f \in Mp3Files : ListedWith(f, u))
                => \A ms \in Elapsed :
                    LET r == download_audio_response(u, ms)
                    IN  /\ ~r.success
                        /\ r.error = AlreadyMsg
                        /\ ListedWith(r.existing_file, u))
    /\ [][/\ \A u \in Urls :
                Started(u) => ~\E f \in Mp3Files : ListedWith(f, u)
          /\ DOMAIN download_progress' # DOMAIN download_progress
                => \E t \in DOMAIN threads :
                    /\ threads[t].pc = "created"
                    /\ threads'[t].pc = "downloading"
                    /\ DOMAIN download_progress' =
                        DOMAIN download_progress \cup {threads[t].download_id}]_vars

\* A job for a url has finished and its file is listed with that url, while
\* another submission could still be accepted.
C2_Witness ==
    /\ Len(threads) < MaxJobs
    /\ \E t \in DOMAIN threads :
        /\ threads[t].pc = "done"
        /\ ListedWith(expected_filename(threads[t].url), threads[t].url)

\* No record of the listing is for file f.
NotListed(f) ==
    LET listing == list_downloads_internal
    IN  \A i \in DOMAIN listing : listing[i].filename # f

C9_DeleteAbsentNoChange ==
    /\ [](\A path \in ClientPaths :
            ~exists(filepath(basename(path)))
                => delete_file_response(path) =
                        [success |-> FALSE, error |-> "File not found"])
    /\ [][\A path \in ClientPaths :
            (~exists(filepath(basename(path))) /\ delete_file(path))
                => UNCHANGED vars]_vars

\* The history has an entry for a file that is not in the folder, and a
\* delete request can be taken.
C9_Witness ==
    /\ deleting.pc = "idle"
    /\ \E f \in Mp3Files :
        ~OnDisk(f) /\ EntriesFor(download_history, f) # {}

C11_UnknownPollNoInsert ==
    /\ [](\A id \in JobIds :
            id \notin DOMAIN download_progress
                => /\ get_progress_response(id).status = "unknown"
                   /\ get_progress_response(id).progress = 0)
    /\ [][/\ \A id \in JobIds : get_progress(id) => UNCHANGED vars
          /\ \A id \in JobIds :
                (id \notin DOMAIN download_progress
                    /\ id \in DOMAIN download_progress')
                    => \E t \in DOMAIN threads :
                        /\ threads[t].download_id = id
                        /\ threads[t].pc = "created"
                        /\ threads'[t].pc = "downloading"]_vars

\* The registry holds a record and some id a client can ask for is not in it.
C11_Witness ==
    /\ download_progress # <<>>
    /\ \E id \in JobIds : id \notin DOMAIN download_progress

\* The entries of the history whose url is u.
EntriesOfUrl(u) == {i \in DOMAIN download_history : download_history[i].url = u}

\* C12: when two jobs for the same URL have both succeeded and ended, and the
\* history holds their two entries with the files they name in the folder,
\* the jobs have separate completed registry records and the two entries
\* name two files.
C12_TwoJobsTwoFiles ==
    \A t1, t2 \in DOMAIN threads :
        LET u == threads[t1].url
            entries == EntriesOfUrl(u)
        IN  (/\ t1 < t2
             /\ threads[t2].url = u
             /\ threads[t1].pc = "done"
             /\ threads[t2].pc = "done"
             /\ deleting.pc = "idle"
             /\ Cardinality(entries) = 2
             /\ \A i \in entries : OnDisk(download_history[i].filename))
                => /\ threads[t1].download_id # threads[t2].download_id
                   /\ download_progress[threads[t1].download_id].status =
                        "completed"
                   /\ download_progress[threads[t2].download_id].status =
                        "completed"
                   /\ \A i, j \in entries :
                        i # j => download_history[i].filename #
                                    download_history[j].filename

\* C13: every registry record has its fields populated by its status: a
\* completed record has progress 100, a non-empty filename, a title and a
\* duration and no error; an error record has progress 0, no filename and a
\* non-empty error; a downloading record has no filename and no error; only
\* a completed record has a title or a duration.
C13_FieldsByStatus ==
    \A id \in DOMAIN download_progress :
        LET r == download_progress[id]
        IN  /\ r.status \in {"downloading", "completed", "error"}
            /\ r.status = "completed"
                => /\ r.progress = 100
                   /\ r.filename \notin {None, ""}
                   /\ {"title", "duration"} \subseteq DOMAIN r
                   /\ r.error = None
            /\ r.status = "error"
                => /\ r.progress = 0
                   /\ r.filename = None
                   /\ r.error \notin {None, ""}
            /\ r.status = "downloading"
                => r.filename = None /\ r.error = None
            /\ r.status # "completed"
                => DOMAIN r \cap {"title", "duration"} = {}

\* C14: no step removes a record from the registry: an id a progress query
\* answers with a status other than unknown is answered with a status other
\* than unknown after every later step.
C14_RegistryNeverShrinks ==
    [][/\ DOMAIN download_progress \subseteq DOMAIN download_progress'
       /\ \A id \in JobIds :
            get_progress_response(id).status # "unknown"
                => get_progress_response(id)'.status # "unknown"]_vars

\* Every job has ended, one of them in failure, and the registry still holds
\* a record for each id stamped.
C14_Witness ==
    /\ threads # <<>>
    /\ \A t \in DOMAIN threads :
        /\ threads[t].pc \in {"done", "failed"}
        /\ threads[t].download_id \in DOMAIN download_progress
    /\ \E t \in DOMAIN threads : threads[t].pc = "failed"

\* C15: the listing has a record for every .mp3 file of the folder, and the
\* record of a file that no history entry names has source_url "", duration 0
\* and duration_formatted "Unknown".
C15_NoEntryDefaults ==
    LET listing == list_downloads_internal
    IN  \A f \in Mp3Files :
            (OnDisk(f) /\ EntriesFor(download_history, f) = {})
                => /\ \E i \in DOMAIN listing : listing[i].filename = f
                   /\ \A i \in DOMAIN listing :
                        listing[i].filename = f
                            => /\ listing[i].source_url = ""
                               /\ listing[i].duration = 0
                               /\ listing[i].duration_formatted = "Unknown"

\* The folder holds a file that no history entry names next to a file that
\* has one.
C15_Witness ==
    \E f, g \in Mp3Files :
        /\ OnDisk(f) /\ EntriesFor(download_history, f) = {}
        /\ OnDisk(g) /\ EntriesFor(download_history, g) # {}

\* C16: loading the history file, saving the result and loading again gives
\* what the first load gave, and saving the in-memory history then loading
\* gives that same history.
C16_SaveLoadFixedPoint ==
    /\ load_download_history(
            save_download_history(load_download_history(histfile)))
         = load_download_history(histfile)
    /\ load_download_history(save_download_history(download_history))
         = download_history

\* The path is directly inside the storage directory.
InsideFolder(path) ==
    Len(path) = 2 /\ path[1] = DOWNLOAD_FOLDER /\ path[2] \notin {".", ".."}

\* C17: for every client-supplied filename, the path the delete,
\* download-file and play-audio handlers test, remove or serve is directly
\* inside the storage directory: a handler finds a path to exist only if it
\* is a file of the folder, and what it removes or serves is a file of the
\* folder.
C17_OnlyInsideFolder ==
    \A path \in ClientPaths :
        LET file == filepath(basename(path))
        IN  /\ InsideFolder(file)
            /\ exists(file) => OnDisk(basename(path))
            /\ delete_file_response(path).success => OnDisk(basename(path))
            /\ download_file_response(path).success
                => /\ InsideFolder(download_file_response(path).send_file)
                   /\ OnDisk(basename(path))
            /\ play_audio_response(path).success
                => /\ InsideFolder(play_audio_response(path).send_file)
                   /\ OnDisk(basename(path))

\* The decimal digits, and a number below 100 written with two of them.
Digits == <<"0", "1", "2", "3", "4", "5", "6", "7", "8", "9">>

TwoDigits(n) == Digits[(n \div 10) + 1] \o Digits[(n % 10) + 1]

\* The text C18 states for a duration of s seconds.
DurationText(s) ==
    IF s = 0 THEN "00:00"
    ELSE IF s < 3600
    THEN TwoDigits(s \div 60) \o ":" \o TwoDigits(s % 60)
    ELSE TwoDigits(s \div 3600) \o ":" \o TwoDigits((s % 3600) \div 60)
            \o ":" \o TwoDigits(s % 60)

C19_SavedAfterEveryMutation ==
    (/\ deleting.pc = "idle"
     /\ \A t \in DOMAIN threads : threads[t].pc \in {"done", "failed"})
        => /\ load_download_history(histfile) = download_history
           /\ \A t \in DOMAIN threads :
                LET r == download_progress[threads[t].download_id]
                IN  (/\ threads[t].pc = "done"
                     /\ r.status = "completed"
                     /\ OnDisk(r.filename))
                        => \E i \in DOMAIN download_history :
                            /\ download_history[i].filename = r.filename
                            /\ download_history[i].url = threads[t].url

\* The executions of the wrapped body that begin in the 60 seconds from s on.
BegunIn(s) == {i \in DOMAIN begun : s <= begun[i] /\ begun[i] < s + 60}

\* C20: at most max_per_minute executions of the body wrapped by rate_limit
\* begin within any window of 60 seconds.
C20_AtMostNPerMinute ==
    \A i \in DOMAIN begun : Cardinality(BegunIn(begun[i])) <= max_per_minute

\* C21: under fair scheduling a job whose downloader call has returned or
\* raised gets a completed or error record and its thread ends, whatever the
\* other jobs do; and the record of a job whose downloader call has not
\* returned is downloading.
C21_JobsTerminate ==
    /\ \A t \in 1..MaxJobs :
            (t \in DOMAIN threads /\ threads[t].pc = "downloaded")
                ~> (t \in DOMAIN threads
                        /\ threads[t].pc \in {"completed", "failed"}
                        /\ download_progress[threads[t].download_id].status
                                \in {"completed", "error"})
    /\ \A t \in 1..MaxJobs :
            (t \in DOMAIN threads /\ threads[t].pc = "downloaded")
                ~> (t \in DOMAIN threads
                        /\ threads[t].pc \in {"done", "failed"})
    /\ [](\A t \in DOMAIN threads :
            threads[t].pc = "downloading"
                => download_progress[threads[t].download_id].status =
                        "downloading")

\* The part of C21 on termination alone.
C21_Termination ==
    /\ \A t \in 1..MaxJobs :
            (t \in DOMAIN threads /\ threads[t].pc = "downloaded")
                ~> (t \in DOMAIN threads
                        /\ threads[t].pc \in {"completed", "failed"}
                        /\ download_progress[threads[t].download_id].status
                                \in {"completed", "error"})
    /\ \A t \in 1..MaxJobs :
            (t \in DOMAIN threads /\ threads[t].pc = "downloaded")
                ~> (t \in DOMAIN threads
                        /\ threads[t].pc \in {"done", "failed"})

\* C22: POST /download with a non-empty url answers the already-downloaded
\* error if and only if some .mp3 file of the folder has, as the first history
\* entry with its filename, an entry with that url; otherwise it answers with
\* a job id, and the step that starts a job for the url is taken only then
\* and adds one thread with that url and the id answered.  An entry whose
\* file is not in the folder, or that an earlier entry with the same
\* filename shadows, does not count.
C22_RejectedIffListed ==
    /\ [](\A u \in Urls : \A ms \in Elapsed :
            LET r == download_audio_response(u, ms)
                listed == \E f \in Mp3Files : ListedWith(f, u)
            IN  /\ ~r.success <=> listed
                /\ ~r.success => r.error = AlreadyMsg
                /\ r.success => r.download_id = now + ms)
    /\ [][\A u \in Urls :
            Started(u)
                => /\ ~\E f \in Mp3Files : ListedWith(f, u)
                   /\ threads' = Append(threads, threads'[Len(threads')])
                   /\ threads'[Len(threads')].pc = "created"
                   /\ threads'[Len(threads')].download_id = now']_vars

\* The history has an entry with url u whose file is not in the folder, no
\* file is listed with u, and a submission can still be accepted.
C22_Witness ==
    /\ Len(threads) < MaxJobs
    /\ \E u \in Urls :
        /\ \E i \in DOMAIN download_history :
            download_history[i].url = u /\ ~OnDisk(download_history[i].filename)
        /\ ~\E f \in Mp3Files : ListedWith(f, u)

\* The records of the listing for file f.
RecordsFor(f) ==
    LET listing == list_downloads_internal
    IN  {i \in DOMAIN listing : listing[i].filename = f}

\* C23: the listing has exactly one record for every .mp3 file of the folder
\* and none for any other name, be it a file of the folder that is not an
\* .mp3 or the filename of a history entry without a file; and GET /downloads
\* leaves the history, the history file, the registry and the folder as they
\* are.
C23_ListingIsTheFolder ==
    /\ [](\A f \in FolderFiles :
            Cardinality(RecordsFor(f)) =
                IF OnDisk(f) /\ f \in Mp3Names THEN 1 ELSE 0)
    /\ [](Len(list_downloads_internal) =
            Cardinality({f \in Mp3Names : OnDisk(f)}))
    /\ [][list_downloads
            => UNCHANGED <<disk, download_history, histfile,
                           download_progress>>]_vars

\* The folder holds an .mp3 file and a file that is not one, and the history
\* has an entry whose file is not in the folder.
C23_Witness ==
    /\ OnDisk("a.webm")
    /\ \E f \in Mp3Names : OnDisk(f)
    /\ \E i \in DOMAIN download_history :
            ~OnDisk(download_history[i].filename)

\* What a progress callback with event d makes of the progress old.
ProgressAfter(d, old) ==
    IF d.status = "finished" THEN 100
    ELSE IF d.status = "downloading" /\ d.percent = " 50.0%" THEN 50
    ELSE old

\* C24: a progress callback of job t sets the progress of the job's record to
\* the parsed percent, leaves it for a missing or unparseable percent and
\* sets it to 100 when the status is finished; it leaves the status, the
\* filename and the error of that record, and the record of every other job
\* that has one, as they are.
C24_HookSetsOwnProgress ==
    [][\A t \in DOMAIN threads : \A d \in HookEvents :
        progress_hook(t, d)
            => LET id  == threads[t].download_id
                   old == download_progress[id]
                   new == download_progress'[id]
               IN  /\ new.progress = ProgressAfter(d, old.progress)
                   /\ new.status = old.status
                   /\ new.filename = old.filename
                   /\ new.error = old.error
                   /\ \A o \in DOMAIN threads \ {t} :
                        threads[o].pc # "created"
                            => download_progress'[threads[o].download_id]
                                = download_progress[threads[o].download_id]]_vars

\* C25: whatever the history file holds, the load gives a list: the empty
\* list unless the file holds a well-formed list of entries; so the
\* in-memory history is a list in every state after startup.
C25_LoadYieldsList ==
    /\ [](IsList(load_download_history(histfile)))
    /\ [](~WellFormed(histfile) => load_download_history(histfile) = <<>>)
    /\ [](IsList(download_history))

\* C26: POST /download without a url, or with an empty one, is answered
\* success false with the error 'No URL provided'; the request starts no
\* DownloadThread, reads no clock for an id and leaves the registry, the
\* history, the history file and the folder as they are.
C26_NoUrlRejected ==
    /\ [](\A ms \in Elapsed :
            download_audio_response(NoUrl, ms)
                = [success |-> FALSE, error |-> "No URL provided"])
    /\ [][\A ms \in Elapsed :
            download_audio(NoUrl, ms)
                => UNCHANGED <<threads, now, download_progress,
                               download_history, histfile, disk>>]_vars

\* A job has run, the history has its entry, and a request with a url could
\* still start a job.
C26_Witness ==
    /\ Len(threads) < MaxJobs
    /\ download_progress # <<>>
    /\ download_history # <<>>
    /\ \E u \in Urls : download_audio_response(u, 0).success
    /\ ~download_audio_response(NoUrl, 0).success

\* C27: POST /info starts no job and leaves the registry, the history, the
\* history file and the folder as they are; for a url that is the source_url
\* of a record of the listing it answers already_downloaded true with the
\* filename of such a record, and the request does not reach the rate
\* limiter of get_video_info nor extract_info behind it.
C27_InfoReadsOnly ==
    /\ [](\A u \in Urls : \A outcome \in InfoOutcomes : \A msg \in ExcMessages :
            (\E f \in Mp3Names : ListedWith(f, u))
                => LET r == get_video_info_response(u, outcome, msg)
                   IN  /\ r.success
                       /\ r.already_downloaded
                       /\ ListedWith(r.existing_file, u))
    /\ [][\A u \in Urls \cup {NoUrl} : \A outcome \in InfoOutcomes :
          \A msg \in ExcMessages :
            get_video_info(u, outcome, msg)
                => /\ UNCHANGED <<threads, now, download_progress,
                                  download_history, histfile, disk>>
                   /\ (\E f \in Mp3Names : ListedWith(f, u))
                        => UNCHANGED info_calls]_vars

\* One url is in the listing and the other is not, and a request for the
\* other has gone through the rate limiter.
C27_Witness ==
    /\ info_calls # <<>>
    /\ \E u, v \in Urls :
            /\ \E f \in Mp3Names : ListedWith(f, u)
            /\ ~\E f \in Mp3Names : ListedWith(f, v)

\* The place of file f of the folder in the order of creation.
Created(f) == CHOOSE i \in DOMAIN disk : disk[i] = f

\* C28: computed on any folder, the result of download_audio for a url is
\* success with '<title>.mp3' when the folder holds that file; else success
\* with the .mp3 of the folder created last when it holds any; else the
\* failure 'No MP3 files were created'; and the filename of the successful
\* result a job takes is that of a file of the folder at that moment.
C28_ResultNamesAFile ==
    /\ [](\A u \in Urls :
            LET r == download_audio_result(u)
                expected == TitleOf(u) \o ".mp3"
                mp3s == {f \in Mp3Names : OnDisk(f)}
            IN  /\ OnDisk(expected) => r.success /\ r.filename = expected
                /\ ~OnDisk(expected) /\ mp3s # {}
                    => /\ r.success
                       /\ r.filename \in mp3s
                       /\ \A g \in mp3s : Created(g) <= Created(r.filename)
                /\ mp3s = {} <=> r = [success |-> FALSE, error |-> NoMp3Msg]
                /\ r.success => OnDisk(r.filename))
    /\ [][\A t \in DOMAIN threads :
            run_success(t)
                => /\ threads'[t].result.success
                   /\ OnDisk(threads'[t].result.filename)
                   /\ threads'[t].result.filename \in Mp3Names]_vars

\* A job has taken the fallback: its result names a file other than the
\* expected one, chosen among two .mp3 files of the folder.
C28_Witness ==
    \E t \in DOMAIN threads :
        /\ threads[t].pc = "completed"
        /\ threads[t].result.filename # expected_filename(threads[t].url)
        /\ Cardinality({f \in Mp3Names : OnDisk(f)}) = 2

====
